---------------------------- MODULE Spec2Model ----------------------------
(* A state-machine model of four pieces of mwc-node:                      *)
(*   chain/src/error.rs             ErrorKind, Error::is_bad_data          *)
(*   core/src/global.rs             chain type, difficulty_data_to_vector  *)
(*   api/src/handlers/blocks_api.rs HeaderHandler, BlockHandler            *)
(*   core/tests/verifier_cache.rs   the VerifierCache contract             *)
(* Each piece has its own variables, initial condition and next-state      *)
(* relation; a specification SpecX runs one piece and leaves the variables *)
(* of the others at their initial values.                                  *)
EXTENDS Integers, Sequences, FiniteSets

VARIABLES
    error,              \* chain::Error under inspection: [kind, payload, cause] or NoError
    bad_data,           \* last answer of Error::is_bad_data(): None or Some(bool)
    GLOBAL_CHAIN_TYPE,  \* the OneTime<ChainTypes> static: None or Some(type)
    CHAIN_TYPE,         \* the thread_local Cell<Option<ChainTypes>>, one per thread
    pc,                 \* where each thread stands inside get_chain_type()
    last,               \* the call that completed last: who, what, what it saw and returned
    cursor,             \* the HeaderInfo entries handed to difficulty_data_to_vector, newest first
    difficulty_data,    \* None, or what difficulty_data_to_vector(cursor) gave: Ok(vector) or Panic
    chain,              \* what the chain behind the handlers knows: headers and outputs
    api_call,           \* the handler call that completed last: what was asked, answered and tried
    response,           \* the HTTP response of the GET that completed last: None or Some([status, body])
    rangeproof_verification_cache,  \* the verified rangeproof keys, least recently used first
    cache_call,         \* the cache call that completed last: what it was given and returned
    added,              \* history: the outputs ever passed to add_rangeproof_verified
    GLOBAL_NRD_FEATURE_ENABLED,  \* the OneTime<bool> static: None or Some(flag)
    NRD_FEATURE_ENABLED,         \* the thread_local Cell<Option<bool>>, one per thread
    SERVER_RUNNING,     \* the AtomicBool static
    nrd_pc,             \* where each thread stands inside is_nrd_enabled()
    flag_call,          \* the flag call that completed last
    defaulted,          \* history: the threads that were answered the default false
    stop_requested      \* history: whether request_server_stop() was ever called

errVars == <<error, bad_data>>

globVars == <<GLOBAL_CHAIN_TYPE, CHAIN_TYPE, pc, last>>

diffVars == <<cursor, difficulty_data>>

apiVars == <<chain, api_call, response>>

cacheVars == <<rangeproof_verification_cache, cache_call, added>>

flagVars == <<GLOBAL_NRD_FEATURE_ENABLED, NRD_FEATURE_ENABLED, SERVER_RUNNING, nrd_pc,
              flag_call, defaulted, stop_requested>>

\* Rust's Option<T>: None, or Some(x).
None == <<>>

Some(x) == <<x>>

\* What a call gives back: a value, or a panic unwinding out of it.
Ok(x) == <<"ok", x>>

Panic == <<"panic">>

Unit == <<"ok", "()">>

\* A Result's error arm, by error kind.
Err(kind) == <<"err", kind>>

IsOk(r) == r[1] = "ok"

IsErr(r, kind) == r[1] = "err" /\ r[2] = kind

vars == <<errVars, globVars, diffVars, apiVars, cacheVars, flagVars>>

\* The variables of the other pieces, which a step of one piece leaves alone.
notErr == <<globVars, diffVars, apiVars, cacheVars, flagVars>>

notGlob == <<errVars, diffVars, apiVars, cacheVars, flagVars>>

notDiff == <<errVars, globVars, apiVars, cacheVars, flagVars>>

notApi == <<errVars, globVars, diffVars, cacheVars, flagVars>>

notCache == <<errVars, globVars, diffVars, apiVars, flagVars>>

notFlags == <<errVars, globVars, diffVars, apiVars, cacheVars>>

---------------------------------------------------------------------------
(* chain/src/error.rs                                                      *)

\* Number of distinct payload values (strings, hashes, wrapped errors) tried
\* for every payload-carrying kind.
MaxPayload == 3

Payloads == {<<"val", n>> : n \in 1..MaxPayload}

NoError == [kind |-> "none", payload |-> <<>>, cause |-> <<>>]

\* The variants of ErrorKind that carry no payload.
UnitKinds ==
    {"DifficultyTooLow", "WrongTotalDifficulty", "LowEdgebits", "InvalidHash",
     "InvalidScaling", "InvalidPow", "OldBlock", "InvalidBlockTime",
     "InvalidBlockHeight", "InvalidMMRSize", "ImmatureCoinbase",
     "TxKernelNotFound", "OutputSpent", "TxLockHeight", "NRDRelativeHeight",
     "GenesisBlockRequired", "Stopped", "Bitmap"}

\* The variants of ErrorKind that carry one payload.
PayloadKinds ==
    {"Unfit", "Orphan", "InvalidBlockProof", "InvalidRoot", "Keychain", "Secp",
     "AlreadySpent", "DuplicateOutputId", "MerkleProof", "OutputNotFound",
     "RangeproofNotFound", "InvalidBlockVersion", "InvalidTxHashSet",
     "FileReadErr", "SerErr", "TxHashSetErr", "Transaction", "Block", "Other",
     "Committed", "SyncError"}

\* The variants of ErrorKind that carry two payloads.
PairKinds == {"StoreErr"}

\* Every value of the enum ErrorKind: the variant and its payload tuple.
ErrorKind ==
    [kind : UnitKinds, payload : {<<>>}]
        \cup [kind : PayloadKinds, payload : {<<p>> : p \in Payloads}]
        \cup [kind : PairKinds, payload : {<<p, q>> : p, q \in Payloads}]

\* format!("{:?}", e) and e.to_string(): the text of an error, kept apart from
\* the error itself.
DebugFmt(e) == <<"dbg", e[2]>>

ToString(e) == <<"str", e[2]>>

\* Error::kind(): the context of the error.
ErrKind(e) == e.kind

\* A mis-edited match: a payload-carrying block defect slipped into the
\* "not the block's fault" arm.
is_bad_data_InvalidRootExcused(e) ==
    IF ErrKind(e) \in {"Unfit", "Orphan", "StoreErr", "SerErr", "TxHashSetErr",
                       "GenesisBlockRequired", "Other", "InvalidRoot"}
    THEN FALSE
    ELSE TRUE

\* A match with OldBlock added to the "not the block's fault" arm.
is_bad_data_OldBlockExcused(e) ==
    IF ErrKind(e) \in {"Unfit", "Orphan", "StoreErr", "SerErr", "TxHashSetErr",
                       "GenesisBlockRequired", "Other", "OldBlock"}
    THEN FALSE
    ELSE TRUE

\* Error::is_bad_data(): matches the "not the block's fault" kinds, whatever
\* their payload, and answers true for everything else.
is_bad_data(e) ==
    CASE ErrKind(e) = "Unfit" -> FALSE
      [] ErrKind(e) = "Orphan" -> FALSE
      [] ErrKind(e) = "StoreErr" -> FALSE
      [] ErrKind(e) = "SerErr" -> FALSE
      [] ErrKind(e) = "TxHashSetErr" -> FALSE
      [] ErrKind(e) = "GenesisBlockRequired" -> FALSE
      [] ErrKind(e) = "Other" -> FALSE
      [] OTHER -> TRUE

\* impl From<ErrorKind> for Error: Context::new(kind), no cause.
FromErrorKind ==
    \E k \in ErrorKind :
        /\ error' = [kind |-> k.kind, payload |-> k.payload, cause |-> <<>>]
        /\ bad_data' = None
        /\ UNCHANGED notErr

\* impl From<block::Error>: the error becomes the cause of InvalidBlockProof.
FromBlockError ==
    \E e \in Payloads :
        /\ error' = [kind |-> "InvalidBlockProof", payload |-> <<e>>, cause |-> <<e>>]
        /\ bad_data' = None
        /\ UNCHANGED notErr

\* impl From<store::Error>: StoreErr(error, its debug text), error as cause.
FromStoreError ==
    \E e \in Payloads :
        /\ error' = [kind |-> "StoreErr", payload |-> <<e, DebugFmt(e)>>, cause |-> <<e>>]
        /\ bad_data' = None
        /\ UNCHANGED notErr

\* impl From<keychain::Error>, From<transaction::Error>, From<committed::Error>,
\* From<ser::Error>, From<secp::Error>: the error wrapped in the kind named
\* after its origin.
FromWrappedError ==
    \E k \in {"Keychain", "Transaction", "Committed", "SerErr", "Secp"}, e \in Payloads :
        /\ error' = [kind |-> k, payload |-> <<e>>, cause |-> <<>>]
        /\ bad_data' = None
        /\ UNCHANGED notErr

\* impl From<io::Error>: TxHashSetErr(e.to_string()).
FromIoError ==
    \E e \in Payloads :
        /\ error' = [kind |-> "TxHashSetErr", payload |-> <<ToString(e)>>, cause |-> <<>>]
        /\ bad_data' = None
        /\ UNCHANGED notErr

\* A caller asks whether the error was the block's fault.
IsBadData ==
    /\ error # NoError
    /\ bad_data' = Some(is_bad_data(error))
    /\ UNCHANGED <<error, notErr>>

InitErr ==
    /\ error = NoError
    /\ bad_data = None

NextErr ==
    \/ FromErrorKind
    \/ FromBlockError
    \/ FromStoreError
    \/ FromWrappedError
    \/ FromIoError
    \/ IsBadData

---------------------------------------------------------------------------
(* core/src/global.rs: the chain type                                      *)

\* Number of threads that call into the module.
NumThreads == 2

Threads == 1..NumThreads

\* enum ChainTypes.
ChainTypes == {"AutomatedTesting", "UserTesting", "Floonet", "Mainnet"}

\* util::OneTime<T>: a value behind a lock that is written once.
\* is_init(): whether the value has been written.
OneTime_is_init(inner) == inner # None

\* borrow(): a copy of the value; unwraps, so it panics on an unwritten one.
OneTime_borrow(inner) == IF inner = None THEN Panic ELSE Ok(inner[1])

\* init(value): asserts that nothing was written yet, then writes.
OneTime_init(inner, value) ==
    IF inner = None
    THEN [inner |-> Some(value), ret |-> Unit]
    ELSE [inner |-> inner, ret |-> Panic]

\* A write that skips the assertion and overwrites.
OneTime_overwrite(inner, value) == [inner |-> Some(value), ret |-> Unit]

\* set_local_chain_type(new_type): the new content of the caller's slot.
set_local_chain_type(new_type) == Some(new_type)

\* A get_chain_type() that falls back to ChainTypes::default() when nothing is
\* set instead of panicking.
get_chain_type_DefaultsToMainnet(local, global) ==
    IF local = None
    THEN IF OneTime_is_init(global)
         THEN [ret |-> OneTime_borrow(global),
               local |-> set_local_chain_type(OneTime_borrow(global)[2])]
         ELSE [ret |-> Ok("Mainnet"), local |-> local]
    ELSE [ret |-> Ok(local[1]), local |-> local]

\* get_chain_type(): the caller's slot when it holds a value; otherwise the
\* global value, stored into the slot on the way; a panic when neither is set.
\* Gives the outcome and the caller's slot afterwards.
get_chain_type(local, global) ==
    IF local = None
    THEN IF OneTime_is_init(global)
         THEN [ret |-> OneTime_borrow(global),
               local |-> set_local_chain_type(OneTime_borrow(global)[2])]
         ELSE [ret |-> Panic, local |-> local]
    ELSE [ret |-> Ok(local[1]), local |-> local]

\* init_global_chain_type(new_type) with OneTime::set(.., override) semantics.
init_global_chain_type_Overwrites(global, new_type) ==
    OneTime_overwrite(global, new_type)

\* init_global_chain_type(new_type): GLOBAL_CHAIN_TYPE.init(new_type).
init_global_chain_type(global, new_type) == OneTime_init(global, new_type)

\* new_cuckatoo_ctx(edge_bits, proof_size, max_sols): a cuckatoo context.
new_cuckatoo_ctx(edge_bits, proof_size, max_sols) ==
    Ok([family |-> "cuckatoo", edge_bits |-> edge_bits, proof_size |-> proof_size,
        max_sols |-> Some(max_sols)])

\* new_cuckarood_ctx(edge_bits, proof_size): a cuckaroo-d context.
new_cuckarood_ctx(edge_bits, proof_size) ==
    Ok([family |-> "cuckarood", edge_bits |-> edge_bits, proof_size |-> proof_size,
        max_sols |-> None])

\* A create_pow_context that moves Mainnet to cuckatoo from height 1 on.
create_pow_context_SwitchesAtHeight(local, global, height, edge_bits, proof_size, max_sols) ==
    LET got == get_chain_type(local, global) IN
    [local |-> got.local,
     ret |-> IF got.ret = Panic THEN Panic
             ELSE IF got.ret[2] = "Mainnet" /\ (edge_bits > 29 \/ height > 0)
             THEN new_cuckatoo_ctx(edge_bits, proof_size, max_sols)
             ELSE IF got.ret[2] = "Mainnet" THEN new_cuckarood_ctx(edge_bits, proof_size)
             ELSE IF got.ret[2] = "Floonet" /\ edge_bits > 29
             THEN new_cuckatoo_ctx(edge_bits, proof_size, max_sols)
             ELSE IF got.ret[2] = "Floonet" THEN new_cuckarood_ctx(edge_bits, proof_size)
             ELSE new_cuckatoo_ctx(edge_bits, proof_size, max_sols)]

\* create_pow_context(_height, edge_bits, proof_size, max_sols): the match on
\* what get_chain_type() gives; a panic of get_chain_type() unwinds through
\* it. Gives the outcome and the caller's slot afterwards.
create_pow_context(local, global, height, edge_bits, proof_size, max_sols) ==
    LET got == get_chain_type(local, global) IN
    [local |-> got.local,
     ret |-> IF got.ret = Panic THEN Panic
             ELSE IF got.ret[2] = "Mainnet" /\ edge_bits > 29
             THEN new_cuckatoo_ctx(edge_bits, proof_size, max_sols)
             ELSE IF got.ret[2] = "Mainnet" THEN new_cuckarood_ctx(edge_bits, proof_size)
             ELSE IF got.ret[2] = "Floonet" /\ edge_bits > 29
             THEN new_cuckatoo_ctx(edge_bits, proof_size, max_sols)
             ELSE IF got.ret[2] = "Floonet" THEN new_cuckarood_ctx(edge_bits, proof_size)
             ELSE new_cuckatoo_ctx(edge_bits, proof_size, max_sols)]

\* The arguments create_pow_context is tried on: the genesis height, the
\* next and a far one, and edge_bits over the u8 range on both sides of 29.
PowHeights == {0, 1, 1000000}

PowEdgeBits == {0, 29, 30, 255}

NoCall ==
    [thread |-> 0, op |-> "none", arg |-> None, ret |-> Unit,
     local |-> None, global |-> None]

\* The record of a completed call: the thread, the function, its argument,
\* its outcome, and the caller's slot and the global value it met.
Call(t, op, arg, ret, local, global) ==
    [thread |-> t, op |-> op, arg |-> arg, ret |-> ret,
     local |-> local, global |-> global]

\* A set_local_chain_type(new_type) on one slot that all threads share.
SetLocalChainType_Shared(t) ==
    \E new_type \in ChainTypes :
        /\ pc[t] = "idle"
        /\ CHAIN_TYPE' = [u \in Threads |-> set_local_chain_type(new_type)]
        /\ last' = Call(t, "set_local_chain_type", Some(new_type), Unit,
                        CHAIN_TYPE[t], GLOBAL_CHAIN_TYPE)
        /\ UNCHANGED <<GLOBAL_CHAIN_TYPE, pc, notGlob>>

\* A thread calls set_local_chain_type(new_type).
SetLocalChainType(t) ==
    \E new_type \in ChainTypes :
        /\ pc[t] = "idle"
        /\ CHAIN_TYPE' = [CHAIN_TYPE EXCEPT ![t] = set_local_chain_type(new_type)]
        /\ last' = Call(t, "set_local_chain_type", Some(new_type), Unit,
                        CHAIN_TYPE[t], GLOBAL_CHAIN_TYPE)
        /\ UNCHANGED <<GLOBAL_CHAIN_TYPE, pc, notGlob>>

\* A thread calls init_global_chain_type(new_type); the OneTime's write lock
\* makes the check and the write one step.
InitGlobalChainType(t) ==
    \E new_type \in ChainTypes :
        LET r == init_global_chain_type(GLOBAL_CHAIN_TYPE, new_type) IN
        /\ pc[t] = "idle"
        /\ GLOBAL_CHAIN_TYPE' = r.inner
        /\ last' = Call(t, "init_global_chain_type", Some(new_type), r.ret,
                        CHAIN_TYPE[t], GLOBAL_CHAIN_TYPE)
        /\ UNCHANGED <<CHAIN_TYPE, pc, notGlob>>

\* The end of a get_chain_type() call on thread t.
GetChainTypeReturn(t) ==
    LET r == get_chain_type(CHAIN_TYPE[t], GLOBAL_CHAIN_TYPE) IN
    /\ CHAIN_TYPE' = [CHAIN_TYPE EXCEPT ![t] = r.local]
    /\ last' = Call(t, "get_chain_type", None, r.ret,
                    CHAIN_TYPE[t], GLOBAL_CHAIN_TYPE)
    /\ pc' = [pc EXCEPT ![t] = "idle"]
    /\ UNCHANGED <<GLOBAL_CHAIN_TYPE, notGlob>>

\* A thread calls get_chain_type(): it reads its slot and, on an empty slot,
\* asks is_init(). With the slot empty and the global written, the borrow()
\* is a second access to the lock and a step of its own.
GetChainType(t) ==
    /\ pc[t] = "idle"
    /\ IF CHAIN_TYPE[t] = None /\ OneTime_is_init(GLOBAL_CHAIN_TYPE)
       THEN /\ pc' = [pc EXCEPT ![t] = "borrow"]
            /\ UNCHANGED <<GLOBAL_CHAIN_TYPE, CHAIN_TYPE, last, notGlob>>
       ELSE GetChainTypeReturn(t)

\* The borrow() of a get_chain_type() call, the store into the slot and the
\* return.
GetChainTypeBorrow(t) ==
    /\ pc[t] = "borrow"
    /\ GetChainTypeReturn(t)

\* A thread calls create_pow_context(height, edge_bits, 42, 1). The global
\* value is written once, so the is_init() and the borrow() of the
\* get_chain_type() inside see the same value and the call is one step.
CreatePowContext(t) ==
    \E height \in PowHeights, edge_bits \in PowEdgeBits :
        LET r == create_pow_context(CHAIN_TYPE[t], GLOBAL_CHAIN_TYPE, height, edge_bits, 42, 1) IN
        /\ pc[t] = "idle"
        /\ CHAIN_TYPE' = [CHAIN_TYPE EXCEPT ![t] = r.local]
        /\ last' = Call(t, "create_pow_context", Some(<<height, edge_bits>>), r.ret,
                        CHAIN_TYPE[t], GLOBAL_CHAIN_TYPE)
        /\ UNCHANGED <<GLOBAL_CHAIN_TYPE, pc, notGlob>>

InitGlob ==
    /\ GLOBAL_CHAIN_TYPE = None
    /\ CHAIN_TYPE = [t \in Threads |-> None]
    /\ pc = [t \in Threads |-> "idle"]
    /\ last = NoCall

NextGlob ==
    \E t \in Threads :
        \/ SetLocalChainType(t)
        \/ InitGlobalChainType(t)
        \/ GetChainType(t)
        \/ GetChainTypeBorrow(t)
        \/ CreatePowContext(t)

---------------------------------------------------------------------------
(* core/src/global.rs: the NRD feature flag and the running flag           *)

\* set_local_nrd_enabled(enabled): the new content of the caller's slot.
set_local_nrd_enabled(enabled) == Some(enabled)

\* init_global_nrd_enabled(enabled): GLOBAL_NRD_FEATURE_ENABLED.init(enabled).
init_global_nrd_enabled(global, enabled) == OneTime_init(global, enabled)

\* An is_nrd_enabled() that stores the default into the slot.
is_nrd_enabled_RemembersDefault(local, global) ==
    IF local = None
    THEN IF OneTime_is_init(global)
         THEN [ret |-> OneTime_borrow(global), local |-> Some(OneTime_borrow(global)[2])]
         ELSE [ret |-> Ok(FALSE), local |-> Some(FALSE)]
    ELSE [ret |-> Ok(local[1]), local |-> local]

\* is_nrd_enabled(): the caller's slot when it holds a flag; otherwise the
\* global flag, stored into the slot on the way; false, and nothing stored,
\* when neither is set. Gives the answer and the caller's slot afterwards.
is_nrd_enabled(local, global) ==
    IF local = None
    THEN IF OneTime_is_init(global)
         THEN [ret |-> OneTime_borrow(global), local |-> Some(OneTime_borrow(global)[2])]
         ELSE [ret |-> Ok(FALSE), local |-> local]
    ELSE [ret |-> Ok(local[1]), local |-> local]

\* is_server_running(): SERVER_RUNNING.load(SeqCst).
is_server_running(running) == Ok(running)

\* A request_server_stop() that flips the flag.
request_server_stop_Toggles(running) == ~running

\* request_server_stop(): SERVER_RUNNING.store(false, SeqCst).
request_server_stop(running) == FALSE

\* A thread calls set_local_nrd_enabled(enabled).
SetLocalNrdEnabled(t) ==
    \E enabled \in BOOLEAN :
        /\ nrd_pc[t] = "idle"
        /\ NRD_FEATURE_ENABLED' = [NRD_FEATURE_ENABLED EXCEPT ![t] = set_local_nrd_enabled(enabled)]
        /\ flag_call' = Call(t, "set_local_nrd_enabled", Some(enabled), Unit,
                             NRD_FEATURE_ENABLED[t], GLOBAL_NRD_FEATURE_ENABLED)
        /\ UNCHANGED <<GLOBAL_NRD_FEATURE_ENABLED, SERVER_RUNNING, nrd_pc, defaulted,
                       stop_requested, notFlags>>

\* A thread calls init_global_nrd_enabled(enabled).
InitGlobalNrdEnabled(t) ==
    \E enabled \in BOOLEAN :
        LET r == init_global_nrd_enabled(GLOBAL_NRD_FEATURE_ENABLED, enabled) IN
        /\ nrd_pc[t] = "idle"
        /\ GLOBAL_NRD_FEATURE_ENABLED' = r.inner
        /\ flag_call' = Call(t, "init_global_nrd_enabled", Some(enabled), r.ret,
                             NRD_FEATURE_ENABLED[t], GLOBAL_NRD_FEATURE_ENABLED)
        /\ UNCHANGED <<NRD_FEATURE_ENABLED, SERVER_RUNNING, nrd_pc, defaulted,
                       stop_requested, notFlags>>

\* A thread calls is_nrd_enabled(): it reads its slot and, on an empty slot,
\* asks is_init(). With the slot empty and the global written, the borrow()
\* is a second access to the lock and a step of its own (nrd_pc "borrow");
\* otherwise, and at that second step, the call ends.
IsNrdEnabled(t) ==
    IF nrd_pc[t] = "idle" /\ NRD_FEATURE_ENABLED[t] = None
                         /\ OneTime_is_init(GLOBAL_NRD_FEATURE_ENABLED)
    THEN /\ nrd_pc' = [nrd_pc EXCEPT ![t] = "borrow"]
         /\ UNCHANGED <<GLOBAL_NRD_FEATURE_ENABLED, NRD_FEATURE_ENABLED, SERVER_RUNNING,
                        flag_call, defaulted, stop_requested, notFlags>>
    ELSE LET r == is_nrd_enabled(NRD_FEATURE_ENABLED[t], GLOBAL_NRD_FEATURE_ENABLED) IN
         /\ NRD_FEATURE_ENABLED' = [NRD_FEATURE_ENABLED EXCEPT ![t] = r.local]
         /\ flag_call' = Call(t, "is_nrd_enabled", None, r.ret,
                              NRD_FEATURE_ENABLED[t], GLOBAL_NRD_FEATURE_ENABLED)
         /\ nrd_pc' = [nrd_pc EXCEPT ![t] = "idle"]
         /\ defaulted' = IF NRD_FEATURE_ENABLED[t] = None /\ GLOBAL_NRD_FEATURE_ENABLED = None
                         THEN defaulted \cup {t} ELSE defaulted
         /\ UNCHANGED <<GLOBAL_NRD_FEATURE_ENABLED, SERVER_RUNNING, stop_requested, notFlags>>

\* A thread calls is_server_running().
IsServerRunning(t) ==
    /\ nrd_pc[t] = "idle"
    /\ flag_call' = Call(t, "is_server_running", None, is_server_running(SERVER_RUNNING),
                         None, None)
    /\ UNCHANGED <<GLOBAL_NRD_FEATURE_ENABLED, NRD_FEATURE_ENABLED, SERVER_RUNNING, nrd_pc,
                   defaulted, stop_requested, notFlags>>

\* A thread calls request_server_stop().
RequestServerStop(t) ==
    /\ nrd_pc[t] = "idle"
    /\ SERVER_RUNNING' = request_server_stop(SERVER_RUNNING)
    /\ stop_requested' = TRUE
    /\ flag_call' = Call(t, "request_server_stop", None, Unit, None, None)
    /\ UNCHANGED <<GLOBAL_NRD_FEATURE_ENABLED, NRD_FEATURE_ENABLED, nrd_pc, defaulted, notFlags>>

\* The statics as constructed: no flag written, the server running.
InitFlags ==
    /\ GLOBAL_NRD_FEATURE_ENABLED = None
    /\ NRD_FEATURE_ENABLED = [t \in Threads |-> None]
    /\ SERVER_RUNNING = TRUE
    /\ nrd_pc = [t \in Threads |-> "idle"]
    /\ flag_call = NoCall
    /\ defaulted = {}
    /\ stop_requested = FALSE

NextFlags ==
    \E t \in Threads :
        \/ SetLocalNrdEnabled(t)
        \/ InitGlobalNrdEnabled(t)
        \/ IsNrdEnabled(t)
        \/ IsServerRunning(t)
        \/ RequestServerStop(t)

---------------------------------------------------------------------------
(* core/src/global.rs: difficulty_data_to_vector                           *)

\* consensus::DIFFICULTY_ADJUST_WINDOW, consensus::BLOCK_TIME_SEC and
\* consensus::INITIAL_DIFFICULTY are set in consensus.rs; the function is
\* checked for small windows and block times.
DIFFICULTY_ADJUST_WINDOW == 3

BLOCK_TIME_SEC == 2

INITIAL_DIFFICULTY == 5

TESTING_INITIAL_DIFFICULTY == 1

\* Timestamps are u64; the model keeps the arithmetic and narrows the width,
\* every timestamp drawn being far below the modulus.
TS_MODULUS == 65536

\* The timestamps drawn for the entries of a cursor: near zero, where the
\* padding reaches zero, and far from it, where it does not.
Timestamps == {0, 3, 50, 53}

\* initial_block_difficulty() for the chain type get_chain_type() returned.
initial_block_difficulty(chain_type) ==
    CASE chain_type = "AutomatedTesting" -> TESTING_INITIAL_DIFFICULTY
      [] chain_type = "UserTesting" -> TESTING_INITIAL_DIFFICULTY
      [] chain_type = "Floonet" -> INITIAL_DIFFICULTY
      [] chain_type = "Mainnet" -> INITIAL_DIFFICULTY

Difficulties == {TESTING_INITIAL_DIFFICULTY, INITIAL_DIFFICULTY}

\* consensus::HeaderInfo, the fields the function reads and writes.
HeaderInfo == [timestamp : Timestamps, difficulty : Difficulties]

\* HeaderInfo::from_ts_diff(timestamp, difficulty).
from_ts_diff(timestamp, difficulty) ==
    [timestamp |-> timestamp, difficulty |-> difficulty]

\* u64 `a - b`: an overflow panics where overflow checks are compiled in and
\* wraps where they are not.
u64_sub(a, b, overflow_checks) ==
    IF a >= b THEN Ok(a - b)
    ELSE IF overflow_checks THEN Panic
    ELSE Ok((a - b) % TS_MODULUS)

\* A subtraction that does not stop at zero.
saturating_sub_Unclamped(a, b) == a - b

\* u64::saturating_sub.
saturating_sub(a, b) == IF a >= b THEN a - b ELSE 0

\* Iterator::take(n).collect().
Take(seq, n) == SubSeq(seq, 1, IF Len(seq) < n THEN Len(seq) ELSE n)

\* Vec::reverse.
Reverse(seq) == [i \in 1..Len(seq) |-> seq[Len(seq) + 1 - i]]

\* The loop `for _ in n..needed_block_count`: each turn steps last_ts back by
\* the delta and pushes a simulated entry.
RECURSIVE PushSimulated(_, _, _, _, _)
PushSimulated(last_n, last_ts, last_ts_delta, last_diff, turns) ==
    IF turns <= 0 THEN last_n
    ELSE LET ts == saturating_sub(last_ts, last_ts_delta) IN
         PushSimulated(Append(last_n, from_ts_diff(ts, last_diff)),
                       ts, last_ts_delta, last_diff, turns - 1)

\* The padding with the delta of one block time whatever the entries say.
difficulty_data_to_vector_FixedDelta(cur, overflow_checks) ==
    LET needed_block_count == DIFFICULTY_ADJUST_WINDOW + 1
        last_n == Take(cur, needed_block_count)
        n == Len(last_n)
    IN  IF needed_block_count > n
        THEN IF n = 0 THEN Panic
             ELSE Ok(Reverse(PushSimulated(last_n, last_n[n].timestamp, BLOCK_TIME_SEC,
                                           last_n[1].difficulty, needed_block_count - n)))
        ELSE Ok(Reverse(last_n))

\* difficulty_data_to_vector(cursor). The code indexes from 0: last_n[0] is
\* last_n[1] here. Indexing an empty vector panics.
difficulty_data_to_vector(cur, overflow_checks) ==
    LET needed_block_count == DIFFICULTY_ADJUST_WINDOW + 1
        last_n == Take(cur, needed_block_count)
        n == Len(last_n)
    IN  IF needed_block_count > n
        THEN LET last_ts_delta ==
                     IF n > 1
                     THEN u64_sub(last_n[1].timestamp, last_n[2].timestamp, overflow_checks)
                     ELSE Ok(BLOCK_TIME_SEC)
             IN  IF last_ts_delta = Panic THEN Panic
                 ELSE IF n = 0 THEN Panic
                 ELSE Ok(Reverse(PushSimulated(last_n, last_n[n].timestamp, last_ts_delta[2],
                                               last_n[1].difficulty, needed_block_count - n)))
        ELSE Ok(Reverse(last_n))

\* The cursors tried: every sequence of entries up to one longer than the
\* function takes.
Cursors == UNION {[1..n -> HeaderInfo] : n \in 0..(DIFFICULTY_ADJUST_WINDOW + 2)}

\* A caller runs difficulty_data_to_vector on the cursor, in a build with or
\* without overflow checks.
DifficultyDataToVector ==
    \E overflow_checks \in BOOLEAN :
        /\ difficulty_data = None
        /\ difficulty_data' = Some(difficulty_data_to_vector(cursor, overflow_checks))
        /\ UNCHANGED <<cursor, notDiff>>

\* No difficulty data asked for.
IdleDiff ==
    /\ cursor = <<>>
    /\ difficulty_data = None

\* Any cursor may come in.
InitDiff ==
    /\ cursor \in Cursors
    /\ difficulty_data = None

\* The node has started: the global chain type is initialised.
StartedGlob ==
    /\ GLOBAL_CHAIN_TYPE \in {Some(c) : c \in ChainTypes}
    /\ CHAIN_TYPE = [t \in Threads |-> None]
    /\ pc = [t \in Threads |-> "idle"]
    /\ last = NoCall

NextDiff == DifficultyDataToVector

---------------------------------------------------------------------------
(* api/src/handlers/blocks_api.rs                                          *)

\* Strings are sequences of one-character strings.
\* The repeat count of the pattern [0-9a-fA-F]{64}.
HASH_HEX_LEN == 64

Digits == <<"0", "1", "2", "3", "4", "5", "6", "7", "8", "9">>

LowerHex == <<"a", "b", "c", "d", "e", "f">>

UpperHex == <<"A", "B", "C", "D", "E", "F">>

Range(seq) == {seq[i] : i \in 1..Len(seq)}

DigitChars == Range(Digits)

IsDigit(c) == c \in DigitChars

\* The character class [0-9a-fA-F].
HexChars == Range(Digits) \cup Range(LowerHex) \cup Range(UpperHex)

IsHexChar(c) == c \in HexChars

DigitVal(c) == CHOOSE v \in 0..9 : Digits[v + 1] = c

\* The value of a hexadecimal digit, either case.
NibbleOf(c) ==
    IF IsDigit(c) THEN DigitVal(c)
    ELSE IF c \in Range(LowerHex) THEN 9 + (CHOOSE v \in 1..6 : LowerHex[v] = c)
    ELSE 9 + (CHOOSE v \in 1..6 : UpperHex[v] = c)

\* The string of n copies of the character c.
Rep(c, n) == [i \in 1..n |-> c]

\* u64::MAX in decimal.
U64_MAX_DIGITS ==
    <<"1", "8", "4", "4", "6", "7", "4", "4", "0", "7",
      "3", "7", "0", "9", "5", "5", "1", "6", "1", "5">>

RECURSIVE StripLeadingZeros(_)
StripLeadingZeros(s) ==
    IF Len(s) > 1 /\ s[1] = "0" THEN StripLeadingZeros(Tail(s)) ELSE s

\* Whether the decimal numeral a (no leading zeros) is at most the numeral b.
NumeralLeq(a, b) ==
    \/ Len(a) < Len(b)
    \/ /\ Len(a) = Len(b)
       /\ \/ a = b
          \/ \E i \in 1..Len(a) :
                /\ \A j \in 1..(i - 1) : a[j] = b[j]
                /\ DigitVal(a[i]) < DigitVal(b[i])

\* str::parse::<u64>(): an optional '+', then one or more decimal digits whose
\* value fits 64 bits. The value is kept as its numeral without leading
\* zeros.
parse_u64(input) ==
    LET digits == IF Len(input) > 0 /\ input[1] = "+" THEN Tail(input) ELSE input
    IN  IF Len(digits) = 0 \/ \E i \in 1..Len(digits) : ~IsDigit(digits[i])
        THEN Err("ParseIntError")
        ELSE IF NumeralLeq(StripLeadingZeros(digits), U64_MAX_DIGITS)
             THEN Ok(StripLeadingZeros(digits))
             ELSE Err("ParseIntError")

\* Regex::is_match for [0-9a-fA-F]{64}: the pattern carries no anchors, so it
\* matches when 64 hexadecimal digits in a row occur anywhere in the input.
RE_is_match(input) ==
    \E i \in 1..(Len(input) - HASH_HEX_LEN + 1) :
        \A j \in i..(i + HASH_HEX_LEN - 1) : IsHexChar(input[j])

\* check_block_param(input).
check_block_param(input) ==
    IF ~RE_is_match(input) THEN Err("Argument") ELSE Ok("()")

\* util::from_hex: the bytes of a hexadecimal string, two digits a byte (kept
\* as the sequence of digit values); an error on an odd length or on a
\* character that is no hexadecimal digit.
from_hex(input) ==
    IF Len(input) % 2 # 0 \/ \E i \in 1..Len(input) : ~IsHexChar(input[i])
    THEN Err("hex")
    ELSE Ok([i \in 1..Len(input) |-> NibbleOf(input[i])])

\* A fixed-width value from a byte vector: the first n digit values, zero
\* filled when the vector is shorter.
FromVec(v, n) == [i \in 1..n |-> IF i <= Len(v) THEN v[i] ELSE 0]

\* Hash::from_vec: 32 bytes.
Hash_from_vec(v) == FromVec(v, HASH_HEX_LEN)

\* Commitment::from_vec: 33 bytes.
Commitment_from_vec(v) == FromVec(v, HASH_HEX_LEN + 2)

\* The lower-case hexadecimal text of a hash.
to_hex(h) == [i \in 1..Len(h) |-> IF h[i] < 10 THEN Digits[h[i] + 1] ELSE LowerHex[h[i] - 9]]

\* The headers a chain may hold: height (a numeral) and hash.
Header0 == [height |-> <<"0">>, hash |-> Rep(10, HASH_HEX_LEN)]

Header1 == [height |-> <<"1">>, hash |-> Rep(15, HASH_HEX_LEN)]

Header12 == [height |-> <<"1", "2">>, hash |-> Rep(1, HASH_HEX_LEN)]

AllHeaders == {Header0, Header1, Header12}

\* The outputs a chain may hold: the commitment and the header of the block
\* that holds it.
Output12 == [commit |-> Commitment_from_vec(<<1, 2>>), header |-> Header1]

OutputAA == [commit |-> Commitment_from_vec(Rep(10, HASH_HEX_LEN)), header |-> Header12]

Output08 == [commit |-> <<0, 8>> \o Rep(10, HASH_HEX_LEN), header |-> Header0]

AllOutputs == {Output12, OutputAA, Output08}

\* w(&self.chain): the chain behind the handler.
w(c) == Ok(c)

\* Chain::get_header_by_height.
get_header_by_height(c, height) ==
    IF \E h \in c.headers : h.height = height
    THEN Ok(CHOOSE h \in c.headers : h.height = height)
    ELSE Err("chain")

\* Chain::get_block_header.
get_block_header(c, hash) ==
    IF \E h \in c.headers : h.hash = hash
    THEN Ok(CHOOSE h \in c.headers : h.hash = hash)
    ELSE Err("chain")

\* Chain::get_header_for_output.
chain_get_header_for_output(c, output) ==
    IF output.header \in c.headers THEN Ok(output.header) ELSE Err("chain")

\* utils::get_output and utils::get_output_v2: the unspent output with the
\* commitment the text encodes; an Argument error when the text is no
\* hexadecimal string.
get_output(c, id) ==
    LET v == from_hex(id) IN
    IF ~IsOk(v) THEN Err("Argument")
    ELSE IF \E o \in c.outputs : o.commit = Commitment_from_vec(v[2])
         THEN Ok(Some(CHOOSE o \in c.outputs : o.commit = Commitment_from_vec(v[2])))
         ELSE Ok(None)

\* BlockHeaderPrintable::from_header: the header with its hash as text.
from_header(h) == [height |-> h.height, hash |-> to_hex(h.hash)]

\* Header::hash().
HeaderHash(h) == h.hash

\* What a handler function gives: its result, the chain lookups it made, in
\* order, and the verdict of check_block_param when it asked for one.
Outcome(ret, tried, checked) == [ret |-> ret, tried |-> tried, checked |-> checked]

\* HeaderHandler::get_header_for_output(commit_id).
get_header_for_output(c, commit_id) ==
    LET found == get_output(c, commit_id) IN
    IF ~IsOk(found) THEN found
    ELSE IF found[2] = None THEN Err("NotFound")
    ELSE LET header == chain_get_header_for_output(w(c)[2], found[2][1]) IN
         IF IsOk(header) THEN Ok(from_header(header[2])) ELSE Err("NotFound")

\* A get_header that reads the input as a height before it reads it as an
\* output commitment.
get_header_HeightFirst(c, input) ==
    IF IsOk(parse_u64(input))
    THEN LET header == get_header_by_height(w(c)[2], parse_u64(input)[2]) IN
         Outcome(IF IsOk(header) THEN Ok(from_header(header[2])) ELSE Err("NotFound"),
                 <<"height">>, None)
    ELSE IF IsOk(get_header_for_output(c, input))
    THEN Outcome(get_header_for_output(c, input), <<"output">>, None)
    ELSE IF ~IsOk(check_block_param(input))
    THEN Outcome(check_block_param(input), <<"output">>, Some(check_block_param(input)))
    ELSE IF ~IsOk(from_hex(input))
    THEN Outcome(Err("Argument"), <<"output">>, Some(check_block_param(input)))
    ELSE LET header == get_block_header(w(c)[2], Hash_from_vec(from_hex(input)[2])) IN
         Outcome(IF IsOk(header) THEN Ok(from_header(header[2])) ELSE Err("NotFound"),
                 <<"output", "hash">>, Some(check_block_param(input)))

\* HeaderHandler::get_header(input): the header of the output the input names;
\* failing that, of the height it parses as; failing the parse, of the hash
\* it spells.
get_header(c, input) ==
    IF IsOk(get_header_for_output(c, input))
    THEN Outcome(get_header_for_output(c, input), <<"output">>, None)
    ELSE IF IsOk(parse_u64(input))
    THEN LET header == get_header_by_height(w(c)[2], parse_u64(input)[2]) IN
         Outcome(IF IsOk(header) THEN Ok(from_header(header[2])) ELSE Err("NotFound"),
                 <<"output", "height">>, None)
    ELSE IF ~IsOk(check_block_param(input))
    THEN Outcome(check_block_param(input), <<"output">>, Some(check_block_param(input)))
    ELSE IF ~IsOk(from_hex(input))
    THEN Outcome(Err("Argument"), <<"output">>, Some(check_block_param(input)))
    ELSE LET header == get_block_header(w(c)[2], Hash_from_vec(from_hex(input)[2])) IN
         Outcome(IF IsOk(header) THEN Ok(from_header(header[2])) ELSE Err("NotFound"),
                 <<"output", "hash">>, Some(check_block_param(input)))

\* BlockHandler::parse_input(input): the hash of the header at the height the
\* input parses as; failing the parse, the hash it spells.
parse_input(c, input) ==
    IF IsOk(parse_u64(input))
    THEN LET header == get_header_by_height(w(c)[2], parse_u64(input)[2]) IN
         Outcome(IF IsOk(header) THEN Ok(HeaderHash(header[2])) ELSE Err("NotFound"),
                 <<"height">>, None)
    ELSE IF ~IsOk(check_block_param(input))
    THEN Outcome(check_block_param(input), <<>>, Some(check_block_param(input)))
    ELSE IF ~IsOk(from_hex(input))
    THEN Outcome(Err("Argument"), <<>>, Some(check_block_param(input)))
    ELSE Outcome(Ok(Hash_from_vec(from_hex(input)[2])), <<>>, Some(check_block_param(input)))

\* A parse_inputs that refuses a request naming more than one of the three.
HeaderHandler_parse_inputs_ExactlyOne(c, height, hash, commit) ==
    IF Len(height) + Len(hash) + Len(commit) # 1
    THEN Outcome(Err("Argument"), <<>>, None)
    ELSE IF height # None
    THEN LET header == get_header_by_height(w(c)[2], height[1]) IN
         Outcome(IF IsOk(header) THEN Ok(HeaderHash(header[2])) ELSE Err("NotFound"),
                 <<"height">>, None)
    ELSE IF hash # None
    THEN Outcome(Ok(hash[1]), <<>>, None)
    ELSE LET found == get_output(c, commit[1]) IN
         IF ~IsOk(found) THEN Outcome(found, <<"output">>, None)
         ELSE IF found[2] = None THEN Outcome(Err("NotFound"), <<"output">>, None)
         ELSE LET header == chain_get_header_for_output(w(c)[2], found[2][1]) IN
              Outcome(IF IsOk(header) THEN Ok(HeaderHash(header[2])) ELSE Err("NotFound"),
                      <<"output">>, None)

\* HeaderHandler::parse_inputs(height, hash, commit): the three are looked at
\* in turn and the first that is given decides.
HeaderHandler_parse_inputs(c, height, hash, commit) ==
    IF height # None
    THEN LET header == get_header_by_height(w(c)[2], height[1]) IN
         Outcome(IF IsOk(header) THEN Ok(HeaderHash(header[2])) ELSE Err("NotFound"),
                 <<"height">>, None)
    ELSE IF hash # None
    THEN Outcome(Ok(hash[1]), <<>>, None)
    ELSE IF commit # None
    THEN LET found == get_output(c, commit[1]) IN
         IF ~IsOk(found) THEN Outcome(found, <<"output">>, None)
         ELSE IF found[2] = None THEN Outcome(Err("NotFound"), <<"output">>, None)
         ELSE LET header == chain_get_header_for_output(w(c)[2], found[2][1]) IN
              Outcome(IF IsOk(header) THEN Ok(HeaderHash(header[2])) ELSE Err("NotFound"),
                      <<"output">>, None)
    ELSE Outcome(Err("Argument"), <<>>, None)

\* BlockHandler::parse_inputs(height, hash, commit): the same steps as the
\* header handler's.
BlockHandler_parse_inputs(c, height, hash, commit) ==
    IF height # None
    THEN LET header == get_header_by_height(w(c)[2], height[1]) IN
         Outcome(IF IsOk(header) THEN Ok(HeaderHash(header[2])) ELSE Err("NotFound"),
                 <<"height">>, None)
    ELSE IF hash # None
    THEN Outcome(Ok(hash[1]), <<>>, None)
    ELSE IF commit # None
    THEN LET found == get_output(c, commit[1]) IN
         IF ~IsOk(found) THEN Outcome(found, <<"output">>, None)
         ELSE IF found[2] = None THEN Outcome(Err("NotFound"), <<"output">>, None)
         ELSE LET header == chain_get_header_for_output(w(c)[2], found[2][1]) IN
              Outcome(IF IsOk(header) THEN Ok(HeaderHash(header[2])) ELSE Err("NotFound"),
                      <<"output">>, None)
    ELSE Outcome(Err("Argument"), <<>>, None)

\* StatusCode::BAD_REQUEST
BAD_REQUEST == 400

\* response(status, text): an error response.
ErrorResponse(status) == [status |-> status, body |-> "error"]

\* result_to_response: 200 with the value, or the status of the error kind.
result_to_response(res) ==
    IF IsOk(res) THEN [status |-> 200, body |-> res[2]]
    ELSE IF res[2] = "Argument" THEN ErrorResponse(BAD_REQUEST)
    ELSE IF res[2] = "NotFound" THEN ErrorResponse(404)
    ELSE ErrorResponse(500)

\* Chain::get_block: the block of a known header, when its body is stored.
get_block(c, hash, stored) ==
    IF stored /\ \E h \in c.headers : h.hash = hash
    THEN Ok(CHOOSE h \in c.headers : h.hash = hash)
    ELSE Err("chain")

\* BlockPrintable::from_block, which fails on a block it cannot render.
from_block(block, broken, include_proof, include_merkle_proof) ==
    IF broken THEN Err("chain")
    ELSE Ok([kind |-> "block", hash |-> block.hash, include_proof |-> include_proof,
             include_merkle_proof |-> include_merkle_proof])

\* CompactBlockPrintable::from_compact_block.
from_compact_block(block, broken) ==
    IF broken THEN Err("chain")
    ELSE Ok([kind |-> "compact_block", hash |-> block.hash, include_proof |-> FALSE,
             include_merkle_proof |-> FALSE])

\* BlockHandler::get_block(h, include_proof, include_merkle_proof).
BlockHandler_get_block(c, h, stored, broken, include_proof, include_merkle_proof) ==
    IF ~IsOk(get_block(c, h, stored)) THEN Err("NotFound")
    ELSE IF ~IsOk(from_block(get_block(c, h, stored)[2], broken, include_proof, include_merkle_proof))
    THEN Err("Internal")
    ELSE from_block(get_block(c, h, stored)[2], broken, include_proof, include_merkle_proof)

\* BlockHandler::get_compact_block(h).
get_compact_block(c, h, stored, broken) ==
    IF ~IsOk(get_block(c, h, stored)) THEN Err("NotFound")
    ELSE IF ~IsOk(from_compact_block(get_block(c, h, stored)[2], broken))
    THEN Err("Internal")
    ELSE from_compact_block(get_block(c, h, stored)[2], broken)

NoFlags == [compact |-> FALSE, include_proof |-> FALSE, include_merkle_proof |-> TRUE]

\* A loop over the query that stops reading at "compact".
RECURSIVE QueryLoop_StopsAtCompact(_, _)
QueryLoop_StopsAtCompact(query, flags) ==
    IF query = <<>> THEN Ok(flags)
    ELSE LET param == Head(query)[1] IN
         IF param = "compact" THEN Ok([flags EXCEPT !.compact = TRUE])
         ELSE IF param = "no_merkle_proof"
         THEN QueryLoop_StopsAtCompact(Tail(query), [flags EXCEPT !.include_merkle_proof = FALSE])
         ELSE IF param = "include_proof"
         THEN QueryLoop_StopsAtCompact(Tail(query), [flags EXCEPT !.include_proof = TRUE])
         ELSE Err("unsupported")

\* The loop of BlockHandler::get over the (param, value) pairs of the query:
\* the flags set when every name is known, an error at the first unknown.
RECURSIVE QueryLoop(_, _)
QueryLoop(query, flags) ==
    IF query = <<>> THEN Ok(flags)
    ELSE LET param == Head(query)[1] IN
         IF param = "compact"
         THEN QueryLoop(Tail(query), [flags EXCEPT !.compact = TRUE])
         ELSE IF param = "no_merkle_proof"
         THEN QueryLoop(Tail(query), [flags EXCEPT !.include_merkle_proof = FALSE])
         ELSE IF param = "include_proof"
         THEN QueryLoop(Tail(query), [flags EXCEPT !.include_proof = TRUE])
         ELSE Err("unsupported")

\* BlockHandler::get with the query loop that stops at "compact".
BlockHandler_get_CompactReturnsEarly(c, parsed, query, stored, broken) ==
    LET h == parsed[2]
        flags == IF query = None THEN Ok(NoFlags) ELSE QueryLoop_StopsAtCompact(query[1], NoFlags)
    IN IF ~IsOk(parsed) THEN ErrorResponse(BAD_REQUEST)
       ELSE IF ~IsOk(flags) THEN ErrorResponse(BAD_REQUEST)
       ELSE IF flags[2].compact
       THEN result_to_response(get_compact_block(c, h, stored, broken))
       ELSE result_to_response(BlockHandler_get_block(c, h, stored, broken,
                flags[2].include_proof, flags[2].include_merkle_proof))

\* BlockHandler::get(req), from what self.parse_input(el) gave for the path
\* element: the match on it, then the query, then the block or the compact
\* block.
BlockHandler_get(c, parsed, query, stored, broken) ==
    LET h == parsed[2]
        flags == IF query = None THEN Ok(NoFlags) ELSE QueryLoop(query[1], NoFlags)
    IN IF ~IsOk(parsed) THEN ErrorResponse(BAD_REQUEST)
       ELSE IF ~IsOk(flags) THEN ErrorResponse(BAD_REQUEST)
       ELSE IF flags[2].compact
       THEN result_to_response(get_compact_block(c, h, stored, broken))
       ELSE result_to_response(BlockHandler_get_block(c, h, stored, broken,
                flags[2].include_proof, flags[2].include_merkle_proof))

\* HeaderHandler::get(req).
HeaderHandler_get(c, input) == result_to_response(get_header(c, input).ret)

\* The path elements tried: empty, short numerals with and without sign and
\* leading zeros, the numerals around u64::MAX, and strings of and around 64
\* hexadecimal digits, some of them decimal throughout, some with a
\* character outside the class.
ApiInputs ==
    {<<>>, <<"0">>, <<"5">>, <<"1", "2">>, <<"0", "1", "2">>, <<"+", "1">>, <<"-", "1">>,
     <<"+">>, <<"a">>, <<"g">>, <<"1", "a">>,
     U64_MAX_DIGITS,
     SubSeq(U64_MAX_DIGITS, 1, 19) \o <<"6">>,
     Rep("0", HASH_HEX_LEN),
     Rep("0", HASH_HEX_LEN - 1) \o <<"1">>,
     Rep("1", HASH_HEX_LEN),
     Rep("a", HASH_HEX_LEN),
     Rep("F", HASH_HEX_LEN),
     Rep("b", HASH_HEX_LEN),
     Rep("a", HASH_HEX_LEN - 1),
     Rep("a", HASH_HEX_LEN + 1),
     Rep("a", HASH_HEX_LEN + 2),
     <<"0", "8">> \o Rep("a", HASH_HEX_LEN),
     <<"0", "9">> \o Rep("a", HASH_HEX_LEN),
     <<"g">> \o Rep("a", HASH_HEX_LEN),
     Rep("a", HASH_HEX_LEN) \o <<"g", "g">>,
     Rep("a", HASH_HEX_LEN \div 2) \o <<"g">> \o Rep("a", HASH_HEX_LEN \div 2 - 1),
     Rep("g", HASH_HEX_LEN)}

\* The structured arguments tried: each of height, hash and commit absent or
\* one of a few values, some known to the chain and some not.
ArgHeights == {None, Some(<<"0">>), Some(<<"1", "2">>), Some(<<"5">>)}

ArgHashes == {None, Some(Rep(10, HASH_HEX_LEN)), Some(Rep(11, HASH_HEX_LEN))}

ArgCommits ==
    {None, Some(<<"1", "2">>), Some(<<"0", "8">> \o Rep("a", HASH_HEX_LEN)), Some(<<"g">>)}

NoApiCall ==
    [handler |-> "none", op |-> "none", input |-> <<>>,
     height |-> None, hash |-> None, commit |-> None,
     ret |-> Ok("()"), tried |-> <<>>, checked |-> None]

\* The record of a call on a path element.
InputCall(handler, op, input, out) ==
    [handler |-> handler, op |-> op, input |-> input,
     height |-> None, hash |-> None, commit |-> None,
     ret |-> out.ret, tried |-> out.tried, checked |-> out.checked]

\* The record of a call on structured arguments.
ArgsCall(handler, op, height, hash, commit, out) ==
    [handler |-> handler, op |-> op, input |-> <<>>,
     height |-> height, hash |-> hash, commit |-> commit,
     ret |-> out.ret, tried |-> out.tried, checked |-> out.checked]

\* The record of a GET: the query it carried and the status and body
\* answered.
Responded(query, answer) ==
    [query |-> query, status |-> answer.status, body |-> answer.body]

\* GET /v1/headers/<input>: HeaderHandler::get hands the last path element to
\* get_header.
HeaderGet ==
    /\ api_call.op = "none"
    /\ \E input \in ApiInputs :
        /\ api_call' = InputCall("HeaderHandler", "get_header", input, get_header(chain, input))
        /\ response' = Some(Responded(None, HeaderHandler_get(chain, input)))
        /\ UNCHANGED <<chain, notApi>>

\* BlockHandler::get hands the last path element to parse_input.
BlockParseInput ==
    /\ api_call.op = "none"
    /\ \E input \in ApiInputs :
        /\ api_call' = InputCall("BlockHandler", "parse_input", input, parse_input(chain, input))
        /\ UNCHANGED <<chain, response, notApi>>

\* The v2 get_header: HeaderHandler::parse_inputs on the structured arguments.
HeaderParseInputs ==
    /\ api_call.op = "none"
    /\ \E height \in ArgHeights, hash \in ArgHashes, commit \in ArgCommits :
        /\ api_call' = ArgsCall("HeaderHandler", "parse_inputs", height, hash, commit,
                                HeaderHandler_parse_inputs(chain, height, hash, commit))
        /\ UNCHANGED <<chain, response, notApi>>

\* The v2 get_block: BlockHandler::parse_inputs on the structured arguments.
BlockParseInputs ==
    /\ api_call.op = "none"
    /\ \E height \in ArgHeights, hash \in ArgHashes, commit \in ArgCommits :
        /\ api_call' = ArgsCall("BlockHandler", "parse_inputs", height, hash, commit,
                                BlockHandler_parse_inputs(chain, height, hash, commit))
        /\ UNCHANGED <<chain, response, notApi>>

\* How many (param, value) pairs the query of a block request carries at most.
MaxParams == 2

\* The pairs form_urlencoded::parse yields from the queries tried: the three
\* known names, one of them also with a value, and a name that is not known.
QueryPairs ==
    {<<"compact", "">>, <<"compact", "false">>, <<"no_merkle_proof", "">>,
     <<"include_proof", "">>, <<"verbose", "">>}

RECURSIVE PairSeqs(_)
PairSeqs(n) ==
    IF n = 0 THEN {<<>>}
    ELSE PairSeqs(n - 1) \cup {Append(q, pair) : q \in PairSeqs(n - 1), pair \in QueryPairs}

\* req.uri().query(): no query at all, or the pairs of the query.
Queries == {None} \cup {Some(q) : q \in PairSeqs(MaxParams)}

\* The path elements of the block requests tried: heights and hashes the
\* chain may or may not have, and elements that are neither.
BlockGetInputs ==
    {<<"5">>, <<"1", "2">>, Rep("1", HASH_HEX_LEN), Rep("b", HASH_HEX_LEN), <<"g">>}

\* GET /v1/blocks/<input>?<query>: BlockHandler::get. Whether the body of the
\* block is stored, and whether it renders, is the chain's.
BlockGet ==
    /\ api_call.op = "none"
    /\ \E input \in BlockGetInputs :
         \E parsed \in {parse_input(chain, input).ret} :
           \E query \in Queries, stored \in BOOLEAN, broken \in BOOLEAN :
             /\ api_call' = InputCall("BlockHandler", "get", input, Outcome(parsed, <<>>, None))
             /\ response' = Some(Responded(query, BlockHandler_get(chain, parsed, query, stored, broken)))
             /\ UNCHANGED <<chain, notApi>>

\* No chain content, no call.
IdleApi ==
    /\ chain = [headers |-> {}, outputs |-> {}]
    /\ api_call = NoApiCall
    /\ response = None

\* The chain holds any of the headers and any of the outputs, and a request
\* is about to be served. The handlers keep no state of their own and leave
\* the chain as it is, so each request is followed from this point alone.
InitApi ==
    /\ chain \in [headers : SUBSET AllHeaders, outputs : SUBSET AllOutputs]
    /\ api_call = NoApiCall
    /\ response = None

NextApi ==
    \/ HeaderGet
    \/ BlockParseInput
    \/ HeaderParseInputs
    \/ BlockParseInputs
    \/ BlockGet

---------------------------------------------------------------------------
(* core/tests/verifier_cache.rs: the VerifierCache contract                *)

\* How many keys the LRU set of verified rangeproofs holds.
CacheCapacity == 2

\* How many different commitments the outputs handed to the cache carry.
MaxCommit == 3

\* The longest batch handed to one call: one more than the cache holds.
MaxBatch == CacheCapacity + 1

\* Output: a commitment and its rangeproof.
Outputs == [commit : 1..MaxCommit, proof : {"proof"}]

\* A hash that tells commitments apart by their parity only.
OutputHash_Colliding(out) == <<"hash", out.commit % 2, out.proof>>

\* Output::hash(), the cache key: the hash of commitment and rangeproof,
\* taken as free of collisions.
OutputHash(out) == <<"hash", out.commit, out.proof>>

RECURSIVE SeqsUpTo(_, _)
SeqsUpTo(S, n) ==
    IF n = 0 THEN {<<>>}
    ELSE SeqsUpTo(S, n - 1) \cup {Append(xs, x) : xs \in SeqsUpTo(S, n - 1) \ {<<>>}, x \in S}
                           \cup {<<x>> : x \in S}

\* The batches handed to a call: every sequence of different outputs up to
\* the longest, and every output given twice in one batch.
Batches ==
    {xs \in SeqsUpTo(Outputs, MaxBatch) : \A i, j \in 1..Len(xs) : xs[i] = xs[j] => i = j}
        \cup {<<x, x>> : x \in Outputs}

Keys(lru) == {lru[i] : i \in 1..Len(lru)}

Without(lru, key) == SelectSeq(lru, LAMBDA k : k # key)

\* LruCache::contains_key(key): an access, a key found becomes the most
\* recently used.
Lru_touch(lru, key) ==
    IF key \in Keys(lru) THEN Append(Without(lru, key), key) ELSE lru

\* An insert that, over capacity, gives up the key it was handed.
Lru_insert_EvictsNewest(lru, key) ==
    LET put == Append(Without(lru, key), key) IN
    IF Len(put) > CacheCapacity THEN Without(lru, key) ELSE put

\* LruCache::insert(key, ()): the key becomes the most recently used; when
\* the set is over capacity the least recently used key is evicted.
Lru_insert(lru, key) ==
    LET put == Append(Without(lru, key), key) IN
    IF Len(put) > CacheCapacity THEN Tail(put) ELSE put

\* add_rangeproof_verified(outputs): insert the key of each output, in order.
RECURSIVE add_rangeproof_verified(_, _)
add_rangeproof_verified(lru, outputs) ==
    IF outputs = <<>> THEN lru
    ELSE add_rangeproof_verified(Lru_insert(lru, OutputHash(Head(outputs))), Tail(outputs))

\* filter_rangeproof_unverified(outputs): retain, in order, the outputs whose
\* key the cache does not contain; each lookup is an access. Gives the
\* retained outputs and the cache after the lookups.
RECURSIVE filter_rangeproof_unverified(_, _)
filter_rangeproof_unverified(lru, outputs) ==
    IF outputs = <<>> THEN [ret |-> <<>>, lru |-> lru]
    ELSE LET out == Head(outputs)
             rest == filter_rangeproof_unverified(Lru_touch(lru, OutputHash(out)), Tail(outputs))
         IN [ret |-> IF OutputHash(out) \in Keys(lru) THEN rest.ret ELSE <<out>> \o rest.ret,
             lru |-> rest.lru]

NoCacheCall == [op |-> "none", outputs |-> <<>>, ret |-> <<>>, before |-> <<>>, added_before |-> FALSE]

\* cache.write().add_rangeproof_verified(outputs)
AddRangeproofVerified ==
    \E outputs \in Batches :
        /\ rangeproof_verification_cache' =
               add_rangeproof_verified(rangeproof_verification_cache, outputs)
        /\ cache_call' = [op |-> "add", outputs |-> outputs, ret |-> <<>>,
                          before |-> rangeproof_verification_cache, added_before |-> FALSE]
        /\ added' = added \cup {outputs[i] : i \in 1..Len(outputs)}
        /\ UNCHANGED notCache

\* cache.write().filter_rangeproof_unverified(&outputs); added_before tells
\* that the call before this one was add_rangeproof_verified of the same
\* outputs.
FilterRangeproofUnverified ==
    \E outputs \in Batches :
        LET r == filter_rangeproof_unverified(rangeproof_verification_cache, outputs) IN
        /\ rangeproof_verification_cache' = r.lru
        /\ cache_call' = [op |-> "filter", outputs |-> outputs, ret |-> r.ret,
                          before |-> rangeproof_verification_cache,
                          added_before |-> cache_call.op = "add" /\ cache_call.outputs = outputs]
        /\ UNCHANGED <<added, notCache>>

\* LruVerifierCache::new(): nothing verified yet.
InitCache ==
    /\ rangeproof_verification_cache = <<>>
    /\ cache_call = NoCacheCall
    /\ added = {}

NextCache ==
    \/ AddRangeproofVerified
    \/ FilterRangeproofUnverified

---------------------------------------------------------------------------
(* Specifications                                                          *)

InitAll == InitErr /\ InitGlob /\ IdleDiff /\ IdleApi /\ InitCache /\ InitFlags

SpecFlags == InitAll /\ [][NextFlags]_vars

SpecCache == InitAll /\ [][NextCache]_vars

SpecErr == InitAll /\ [][NextErr]_vars

SpecGlob == InitAll /\ [][NextGlob]_vars

InitDiffAll == InitErr /\ StartedGlob /\ InitDiff /\ IdleApi /\ InitCache /\ InitFlags

SpecDiff == InitDiffAll /\ [][NextDiff]_vars

InitApiAll == InitErr /\ InitGlob /\ IdleDiff /\ InitApi /\ InitCache /\ InitFlags

SpecApi == InitApiAll /\ [][NextApi]_vars

---------------------------------------------------------------------------
(* Claims                                                                  *)

\* The failure kinds the pipeline treats as bad data.
BadDataKinds ==
    {"InvalidPow", "DifficultyTooLow", "WrongTotalDifficulty", "InvalidHash",
     "InvalidScaling", "InvalidRoot", "InvalidMMRSize", "InvalidBlockProof",
     "AlreadySpent", "DuplicateOutputId", "ImmatureCoinbase", "TxLockHeight",
     "NRDRelativeHeight"}

\* C2: whenever is_bad_data() has answered for an error whose kind is one of
\* the thirteen bad-data kinds, the answer is true, whatever the payload.
C2_BadDataKindsAreBad ==
    (bad_data # None /\ error.kind \in BadDataKinds) => bad_data = Some(TRUE)

\* C2 witness: is_bad_data() has answered for a payload-carrying bad-data kind
\* with a payload other than the first.
C2_Witness ==
    /\ bad_data = Some(TRUE)
    /\ error.kind = "AlreadySpent"
    /\ error.payload = <<<<"val", MaxPayload>>>>

\* The chain type the contract promises for a slot and a global value.
ExpectedChainType(local, global) ==
    IF local # None THEN Ok(local[1])
    ELSE IF global # None THEN Ok(global[1])
    ELSE Panic

\* C3: every completed get_chain_type() returned the caller's override when
\* its slot held one, otherwise the global value when that was initialised,
\* and panicked when neither was set.
C3_GetChainTypeFallback ==
    last.op = "get_chain_type" => last.ret = ExpectedChainType(last.local, last.global)

\* C3 witness: a thread with an empty slot read the initialised global value
\* while another thread held a different override.
C3_Witness ==
    /\ last.op = "get_chain_type"
    /\ last.local = None
    /\ last.global # None
    /\ last.ret = Ok(last.global[1])
    /\ \E u \in Threads : CHAIN_TYPE[u] # None /\ CHAIN_TYPE[u] # last.global

\* C4: once written the global chain type never changes, and an
\* init_global_chain_type() that meets a written value panics.
C4_GlobalInitOnce ==
    [][/\ GLOBAL_CHAIN_TYPE # None => GLOBAL_CHAIN_TYPE' = GLOBAL_CHAIN_TYPE
       /\ (last'.op = "init_global_chain_type" /\ last'.global # None)
              => last'.ret = Panic]_vars

\* C4 witness: a second init_global_chain_type() with a different value has
\* panicked and the first value is still there.
C4_Witness ==
    /\ last.op = "init_global_chain_type"
    /\ last.global # None
    /\ last.arg # last.global
    /\ last.ret = Panic
    /\ GLOBAL_CHAIN_TYPE = last.global

\* The chain type the caller of the difficulty code runs under.
CallerChainType == get_chain_type(CHAIN_TYPE[1], GLOBAL_CHAIN_TYPE).ret[2]

\* The number of real entries the function keeps, and the vector it returned.
RealCount == Len(cursor)

Padded == difficulty_data[1][2]

\* The cursor holds between one real entry and one fewer than the function
\* needs, and the function has run.
PadCase ==
    /\ difficulty_data # None
    /\ 1 <= RealCount
    /\ RealCount < DIFFICULTY_ADJUST_WINDOW + 1

\* The last RealCount entries of the result are the real ones, oldest first.
RealEntriesChronological ==
    \A j \in 1..RealCount :
        Padded[DIFFICULTY_ADJUST_WINDOW + 1 - RealCount + j] = cursor[RealCount + 1 - j]

GenesisOnly ==
    /\ difficulty_data # None
    /\ RealCount = 1
    /\ cursor[1].difficulty = initial_block_difficulty(CallerChainType)

\* C6 as stated: from the genesis entry alone, whatever its timestamp, W+1
\* entries at the initial difficulty, consecutive timestamps exactly one
\* block time apart.
C6_Original ==
    GenesisOnly =>
        /\ difficulty_data[1] # Panic
        /\ Len(Padded) = DIFFICULTY_ADJUST_WINDOW + 1
        /\ \A i \in 1..Len(Padded) :
               Padded[i].difficulty = initial_block_difficulty(CallerChainType)
        /\ \A i \in 1..DIFFICULTY_ADJUST_WINDOW :
               Padded[i + 1].timestamp - Padded[i].timestamp = BLOCK_TIME_SEC

\* C6, amended: from the genesis entry alone, W+1 entries at the initial
\* difficulty; each timestamp is the next one minus the block time, stopping
\* at zero, so the spacing is exactly one block time when the genesis
\* timestamp is at least W block times.
C6_GenesisPadSaturating ==
    GenesisOnly =>
        /\ difficulty_data[1] # Panic
        /\ Len(Padded) = DIFFICULTY_ADJUST_WINDOW + 1
        /\ \A i \in 1..Len(Padded) :
               Padded[i].difficulty = initial_block_difficulty(CallerChainType)
        /\ \A i \in 1..DIFFICULTY_ADJUST_WINDOW :
               Padded[i].timestamp =
                   IF Padded[i + 1].timestamp >= BLOCK_TIME_SEC
                   THEN Padded[i + 1].timestamp - BLOCK_TIME_SEC
                   ELSE 0
        /\ cursor[1].timestamp >= DIFFICULTY_ADJUST_WINDOW * BLOCK_TIME_SEC
               => \A i \in 1..DIFFICULTY_ADJUST_WINDOW :
                      Padded[i + 1].timestamp - Padded[i].timestamp = BLOCK_TIME_SEC

\* C6 witness: the genesis entry alone, late enough for W block times before
\* it, on a chain whose initial difficulty is not the testing one.
C6_Witness ==
    /\ GenesisOnly
    /\ cursor[1].timestamp >= DIFFICULTY_ADJUST_WINDOW * BLOCK_TIME_SEC
    /\ cursor[1].difficulty = INITIAL_DIFFICULTY
    /\ difficulty_data[1] # Panic
    /\ Padded[1].timestamp = cursor[1].timestamp - DIFFICULTY_ADJUST_WINDOW * BLOCK_TIME_SEC

\* C7 as stated: on an empty cursor the function completes and every entry
\* it emits carries the chain's initial difficulty.
C7_EmptyCursorCompletes ==
    (difficulty_data # None /\ cursor = <<>>) =>
        /\ difficulty_data[1] # Panic
        /\ Len(Padded) = DIFFICULTY_ADJUST_WINDOW + 1
        /\ \A i \in 1..Len(Padded) :
               Padded[i].difficulty = initial_block_difficulty(CallerChainType)

\* The input, read as a commitment, names an output the chain knows together
\* with the header of its block.
ResolvesAsCommit(input) ==
    /\ IsOk(from_hex(input))
    /\ \E o \in chain.outputs :
           /\ o.commit = Commitment_from_vec(from_hex(input)[2])
           /\ o.header \in chain.headers

CommitHeader(input) ==
    (CHOOSE o \in chain.outputs : o.commit = Commitment_from_vec(from_hex(input)[2])).header

ParsesAsNumber(input) == IsOk(parse_u64(input))

\* The answer of a lookup by height or by hash: the one header that has it,
\* as rendered by `render`, or not-found.
AnswersWith(ret, matching, shown) ==
    IF matching # {}
    THEN ret[1] = "ok" /\ \E h \in matching : ret[2] = shown[h]
    ELSE IsErr(ret, "NotFound")

Printable == [h \in AllHeaders |-> from_header(h)]

HashOf == [h \in AllHeaders |-> h.hash]

\* C8: get_header answers with the header of the output its input names when
\* the input resolves as a known output commitment, also when the input is a
\* number or 64 hexadecimal digits; otherwise a numeric input is answered by
\* the height lookup alone, header or not-found, and no hash is validated or
\* looked up; otherwise no height is looked up, the input is validated as a
\* hash and, when it passes, looked up by hash.
C8_HeaderByPrecedence ==
    api_call.op = "get_header" =>
        LET input == api_call.input IN
        IF ResolvesAsCommit(input)
        THEN api_call.ret = Ok(from_header(CommitHeader(input)))
        ELSE IF ParsesAsNumber(input)
        THEN /\ "hash" \notin Range(api_call.tried)
             /\ api_call.checked = None
             /\ "height" \in Range(api_call.tried)
             /\ AnswersWith(api_call.ret,
                            {h \in chain.headers : h.height = parse_u64(input)[2]}, Printable)
        ELSE /\ "height" \notin Range(api_call.tried)
             /\ api_call.checked # None
             /\ IF IsOk(api_call.checked[1]) /\ IsOk(from_hex(input))
                THEN /\ "hash" \in Range(api_call.tried)
                     /\ AnswersWith(api_call.ret,
                                    {h \in chain.headers :
                                        h.hash = Hash_from_vec(from_hex(input)[2])}, Printable)
                ELSE /\ "hash" \notin Range(api_call.tried)
                     /\ IsErr(api_call.ret, "Argument")

\* C8 witness: the input "12" named a known output while the chain also had a
\* header at height 12, and the output's header was returned.
C8_Witness ==
    /\ api_call.op = "get_header"
    /\ api_call.input = <<"1", "2">>
    /\ ResolvesAsCommit(api_call.input)
    /\ Header12 \in chain.headers
    /\ CommitHeader(api_call.input) # Header12
    /\ api_call.ret = Ok(from_header(CommitHeader(api_call.input)))

\* C9 as stated: on a non-numeric input check_block_param succeeds exactly
\* when the input is 64 characters long and every character is a hexadecimal
\* digit.
C9_Only64HexAccepted ==
    (api_call.checked # None /\ ~ParsesAsNumber(api_call.input)) =>
        (IsOk(api_call.checked[1])
            <=> /\ Len(api_call.input) = HASH_HEX_LEN
                /\ \A i \in 1..Len(api_call.input) : IsHexChar(api_call.input[i]))

\* How many of height, hash and commit a parse_inputs call was given.
Supplied == Len(api_call.height) + Len(api_call.hash) + Len(api_call.commit)

\* C10 as stated: parse_inputs gives an Argument error when none of the three
\* is supplied and when two or more are, and resolves only when exactly one
\* is.
C10_Original ==
    api_call.op = "parse_inputs" =>
        /\ Supplied = 0 => IsErr(api_call.ret, "Argument")
        /\ Supplied >= 2 => IsErr(api_call.ret, "Argument")
        /\ IsOk(api_call.ret) => Supplied = 1

\* C10, amended: parse_inputs of either handler gives an Argument error when
\* none of the three is supplied; otherwise the first supplied, in the order
\* height, hash, commit, decides alone: a height is answered by the height
\* lookup, else a hash is returned as it is, else the commit is resolved to
\* the hash of its output's header or fails.
C10_FirstSuppliedDecides ==
    api_call.op = "parse_inputs" =>
        /\ Supplied = 0 => IsErr(api_call.ret, "Argument")
        /\ api_call.height # None =>
               AnswersWith(api_call.ret,
                           {h \in chain.headers : h.height = api_call.height[1]}, HashOf)
        /\ (api_call.height = None /\ api_call.hash # None) =>
               api_call.ret = Ok(api_call.hash[1])
        /\ (api_call.height = None /\ api_call.hash = None /\ api_call.commit # None) =>
               IF ResolvesAsCommit(api_call.commit[1])
               THEN api_call.ret = Ok(CommitHeader(api_call.commit[1]).hash)
               ELSE api_call.ret[1] = "err"

\* C10 witness: a height and a hash were both supplied and the call resolved
\* to the hash of the header at the height, which is not the hash supplied.
C10_Witness ==
    /\ api_call.op = "parse_inputs"
    /\ api_call.handler = "BlockHandler"
    /\ api_call.height # None
    /\ api_call.hash # None
    /\ api_call.commit # None
    /\ IsOk(api_call.ret)
    /\ api_call.ret[2] # api_call.hash[1]

DistinctKeys(outputs) == {OutputHash(outputs[i]) : i \in 1..Len(outputs)}

\* C1 as stated: a filter_rangeproof_unverified(xs) that follows
\* add_rangeproof_verified(xs) returns the empty list, and an output whose
\* key is in the verified set is never in the result of a filter.
C1_Original ==
    /\ (cache_call.op = "filter" /\ cache_call.added_before) => cache_call.ret = <<>>
    /\ \A outputs \in Batches :
           \A out \in Range(filter_rangeproof_unverified(rangeproof_verification_cache, outputs).ret) :
               OutputHash(out) \notin Keys(rangeproof_verification_cache)

\* C1, amended: a filter_rangeproof_unverified(xs) that follows
\* add_rangeproof_verified(xs) returns the empty list when xs has no more
\* distinct keys than the cache holds, and otherwise returns only outputs
\* whose key was no longer in the verified set when the filter began; in
\* every state an output whose key is in the verified set is never in the
\* result of a filter, and the set holds no more keys than its capacity.
C1_CacheSoundness ==
    /\ (cache_call.op = "filter" /\ cache_call.added_before) =>
           /\ Cardinality(DistinctKeys(cache_call.outputs)) <= CacheCapacity
                  => cache_call.ret = <<>>
           /\ \A out \in Range(cache_call.ret) : OutputHash(out) \notin Keys(cache_call.before)
    /\ \A outputs \in Batches :
           \A out \in Range(filter_rangeproof_unverified(rangeproof_verification_cache, outputs).ret) :
               OutputHash(out) \notin Keys(rangeproof_verification_cache)
    /\ Len(rangeproof_verification_cache) <= CacheCapacity

\* C1 witness: a full cache was given two outputs to add, one of them new,
\* and the filter of the same two outputs that followed returned nothing.
C1_Witness ==
    /\ cache_call.op = "filter"
    /\ cache_call.added_before
    /\ Cardinality(DistinctKeys(cache_call.outputs)) = CacheCapacity
    /\ Len(cache_call.before) = CacheCapacity
    /\ cache_call.ret = <<>>

\* A path element that is well-formed: a number, or exactly 64 hexadecimal
\* digits.
WellFormed(input) ==
    \/ ParsesAsNumber(input)
    \/ /\ Len(input) = HASH_HEX_LEN
       /\ \A i \in 1..Len(input) : IsHexChar(input[i])

\* The chain has no header at the height, or with the hash, that a
\* well-formed path element names.
NamesNoHeader(input) ==
    IF ParsesAsNumber(input)
    THEN \A h \in chain.headers : h.height # parse_u64(input)[2]
    ELSE \A h \in chain.headers : h.hash # Hash_from_vec(from_hex(input)[2])

KnownParams == {"compact", "no_merkle_proof", "include_proof"}

\* The names of the query parameters of the request answered last.
ParamNames ==
    IF response = None \/ response[1].query = None THEN {}
    ELSE {response[1].query[1][i][1] : i \in 1..Len(response[1].query[1])}

\* C11 as stated: a GET of a block or of a header whose path element is
\* well-formed, carries no unknown query parameter, and names a height, hash
\* or commitment the chain does not have is answered with status 404.
C11_NotFoundIs404 ==
    (/\ response # None
     /\ api_call.op \in {"get", "get_header"}
     /\ WellFormed(api_call.input)
     /\ NamesNoHeader(api_call.input)
     /\ ~ResolvesAsCommit(api_call.input)
     /\ ParamNames \subseteq KnownParams)
        => response[1].status = 404

\* C12: a block request whose query carries a parameter with a name other
\* than compact, no_merkle_proof, include_proof is answered with status 400
\* and an error body, never a block, whatever else the query carries and in
\* whatever order.
C12_UnknownParamRejected ==
    (/\ response # None
     /\ api_call.op = "get"
     /\ ~(ParamNames \subseteq KnownParams))
        => /\ response[1].status = BAD_REQUEST
           /\ response[1].body = "error"

\* C12 witness: the path element named a header the chain has, the query
\* carried compact first and an unknown name after it, and the answer was
\* status 400.
C12_Witness ==
    /\ response # None
    /\ api_call.op = "get"
    /\ IsOk(api_call.ret)
    /\ ~NamesNoHeader(api_call.input)
    /\ response[1].query = Some(<<(<<"compact", "">>), (<<"verbose", "">>)>>)
    /\ response[1].status = BAD_REQUEST

\* C13 as stated: is_bad_data() answers false for each of the kinds Unfit,
\* Orphan and OldBlock.
C13_Original ==
    (bad_data # None /\ error.kind \in {"Unfit", "Orphan", "OldBlock"})
        => bad_data = Some(FALSE)

\* C13, amended: is_bad_data() answers false for the kinds Unfit and Orphan,
\* whatever their payload, and true for OldBlock.
C13_OldBlockIsBadData ==
    /\ (bad_data # None /\ error.kind \in {"Unfit", "Orphan"}) => bad_data = Some(FALSE)
    /\ (bad_data # None /\ error.kind = "OldBlock") => bad_data = Some(TRUE)

\* C13 witness: is_bad_data() has answered true for an OldBlock error.
C13_Witness ==
    /\ error.kind = "OldBlock"
    /\ bad_data = Some(TRUE)

\* C14 as stated: is_bad_data() answers false for every kind of the non-peer
\* class.
C14_NonPeerKindsNotBad ==
    (/\ bad_data # None
     /\ error.kind \in {"Orphan", "StoreErr", "FileReadErr", "SerErr", "TxHashSetErr",
                        "GenesisBlockRequired", "Other", "Stopped", "Bitmap", "SyncError"})
        => bad_data = Some(FALSE)

\* The PoW family the contract gives for a chain type and edge_bits.
ExpectedFamily(chain_type, edge_bits) ==
    IF chain_type \in {"Mainnet", "Floonet"} /\ edge_bits <= 29 THEN "cuckarood" ELSE "cuckatoo"

\* C15: a create_pow_context call that found a chain type, in the caller's
\* slot or else in the global value, gave a context of the family that the
\* chain type and edge_bits alone decide: cuckaroo-d on Mainnet and Floonet
\* for edge_bits <= 29, cuckatoo otherwise, whatever the height.
C15_PowFamilyByChainAndEdgeBits ==
    (last.op = "create_pow_context" /\ (last.local # None \/ last.global # None)) =>
        /\ IsOk(last.ret)
        /\ last.ret[2].family =
               ExpectedFamily(IF last.local # None THEN last.local[1] ELSE last.global[1],
                              last.arg[1][2])
        /\ last.ret[2].edge_bits = last.arg[1][2]

\* C15 witness: on Mainnet, taken from the global value, a call at the far
\* height with edge_bits 29 gave a cuckaroo-d context.
C15_Witness ==
    /\ last.op = "create_pow_context"
    /\ last.local = None
    /\ last.global = Some("Mainnet")
    /\ last.arg = Some(<<1000000, 29>>)
    /\ IsOk(last.ret)
    /\ last.ret[2].family = "cuckarood"

NeverAdded(outputs) == SelectSeq(outputs, LAMBDA out : out \notin added)

\* C16: filter_rangeproof_unverified returns every output it is given that
\* was never passed to add_rangeproof_verified, in the order given; on a
\* cache nothing was ever added to it returns all it is given.
C16_NeverAddedIsReturned ==
    cache_call.op = "filter" =>
        /\ NeverAdded(cache_call.ret) = NeverAdded(cache_call.outputs)
        /\ added = {} => cache_call.ret = cache_call.outputs

\* C16 witness: a filter was given an output that is in the verified set and
\* then two that were never added, and returned those two.
C16_Witness ==
    /\ cache_call.op = "filter"
    /\ Len(cache_call.outputs) = 3
    /\ cache_call.outputs[1] \in added
    /\ cache_call.ret = Tail(cache_call.outputs)
    /\ NeverAdded(cache_call.outputs) = cache_call.ret

\* C17: an is_nrd_enabled() call answers the caller's flag when its slot
\* holds one, otherwise the global flag when that is written, otherwise
\* false; and an answer given because nothing was set leaves the caller's
\* slot empty, so that a thread answered the default reads the global flag
\* once it is written.
C17_NrdFallback ==
    LET t == flag_call.thread IN
    flag_call.op = "is_nrd_enabled" =>
        /\ flag_call.ret = Ok(IF flag_call.local # None THEN flag_call.local[1]
                              ELSE IF flag_call.global # None THEN flag_call.global[1]
                              ELSE FALSE)
        /\ (flag_call.local = None /\ flag_call.global = None)
               => NRD_FEATURE_ENABLED[t] = None

\* C17 witness: a thread that was once answered the default false, and whose
\* slot was never set, has read true after init_global_nrd_enabled(true).
C17_Witness ==
    /\ flag_call.op = "is_nrd_enabled"
    /\ flag_call.thread \in defaulted
    /\ flag_call.local = None
    /\ flag_call.global = Some(TRUE)
    /\ flag_call.ret = Ok(TRUE)

\* C18: the running flag is true until request_server_stop() is called and
\* false ever after, however often it is called again, and every
\* is_server_running() call on every thread answers accordingly.
C18_ServerRunningMonotone ==
    /\ SERVER_RUNNING = ~stop_requested
    /\ flag_call.op = "is_server_running" => flag_call.ret = Ok(~stop_requested)

\* C18 witness: after a request_server_stop() a thread asked
\* is_server_running() and was answered false.
C18_Witness ==
    /\ stop_requested
    /\ flag_call.op = "is_server_running"
    /\ flag_call.ret = Ok(FALSE)

\* What a get_chain_type() on thread u would return.
WouldGet(local, global) == get_chain_type(local, global).ret

\* C19: a step that completes a set_local_chain_type() or a get_chain_type()
\* call on a thread leaves every other thread's slot, what get_chain_type()
\* would return on every other thread, and the global value as they were.
C19_PerThreadIsolation ==
    [][last'.op \in {"set_local_chain_type", "get_chain_type"} =>
          /\ GLOBAL_CHAIN_TYPE' = GLOBAL_CHAIN_TYPE
          /\ \A u \in Threads \ {last'.thread} :
                 /\ CHAIN_TYPE'[u] = CHAIN_TYPE[u]
                 /\ WouldGet(CHAIN_TYPE'[u], GLOBAL_CHAIN_TYPE')
                        = WouldGet(CHAIN_TYPE[u], GLOBAL_CHAIN_TYPE)]_vars

\* C19 witness: a thread has just set its slot while another thread holds a
\* different override and the global value differs from both.
C19_Witness ==
    /\ last.op = "set_local_chain_type"
    /\ CHAIN_TYPE[last.thread] = last.arg
    /\ GLOBAL_CHAIN_TYPE # None
    /\ GLOBAL_CHAIN_TYPE # last.arg
    /\ \E u \in Threads \ {last.thread} :
           /\ CHAIN_TYPE[u] # None
           /\ CHAIN_TYPE[u] # last.arg
           /\ CHAIN_TYPE[u] # GLOBAL_CHAIN_TYPE

===========================================================================
